---------------------------- MODULE Spec2Model ----------------------------
(***************************************************************************)
(* State-machine model of maid-smart-mon.py: the MAID SMART monitor.       *)
(* One monitoring cycle discovers the mounted /dev/sd* disks and, for each *)
(* of them in turn, runs the identity query, the capability query, the     *)
(* device-status upsert, the standby check, the attribute query, the       *)
(* attribute filter, the readings store and the health evaluation.         *)
(* The answers of smartctl, of psutil and of sqlite are the environment:   *)
(* every step draws its answer from a small set.                           *)
(***************************************************************************)
EXTENDS Integers, Sequences, FiniteSets, TLC

-----------------------------------------------------------------------------
(* Bounds of the model *)

MaxCycles == 2      \* monitoring cycles run
MaxVisits == 2      \* devices processed, over all cycles
MaxFaults == 1      \* failed queries and failed database writes, over all cycles
MaxMounts == 2      \* entries of the mount table
MaxTable  == 1      \* records of an attribute table

-----------------------------------------------------------------------------
(* Device names are sequences of characters *)

None == "None"

Dev == <<"/", "d", "e", "v", "/">>
sda == Dev \o <<"s", "d", "a">>
sdb == Dev \o <<"s", "d", "b">>
sda1 == sda \o <<"1">>
sda2 == sda \o <<"2">>
sdb12 == sdb \o <<"1", "2">>
nvme0n1p1 == Dev \o <<"n", "v", "m", "e", "0", "n", "1", "p", "1">>

Digits == {"0", "1", "2", "3", "4", "5", "6", "7", "8", "9"}

\* the partition devices psutil.disk_partitions() may report
PartitionDevices == {sda1, sda2, sdb12, nvme0n1p1}

RECURSIVE SeqsUpTo(_, _)
SeqsUpTo(S, n) ==
  IF n = 0 THEN {<<>>}
  ELSE LET shorter == SeqsUpTo(S, n - 1)
       IN  shorter \cup {Append(s, x) : s \in {t \in shorter : Len(t) = n - 1}, x \in S}

MountTables == SeqsUpTo(PartitionDevices, MaxMounts)

Contains(seq, x) == \E i \in 1..Len(seq) : seq[i] = x

StartsWith(s, p) == Len(s) >= Len(p) /\ SubSeq(s, 1, Len(p)) = p

\* re.sub(r'\d+$', '', s)
RECURSIVE StripTrailingDigits(_)
StripTrailingDigits(s) ==
  IF Len(s) > 0 /\ s[Len(s)] \in Digits
  THEN StripTrailingDigits(SubSeq(s, 1, Len(s) - 1))
  ELSE s

\* a discovery without the test "device not in mounted_drives"
RECURSIVE get_mounted_drives_from_every_partition(_, _)
get_mounted_drives_from_every_partition(parts, mounted) ==
  IF parts = <<>> THEN mounted
  ELSE LET device == StripTrailingDigits(Head(parts))
       IN  get_mounted_drives_from_every_partition(Tail(parts),
             IF StartsWith(device, Dev \o <<"s", "d">>)
             THEN Append(mounted, device)
             ELSE mounted)

RECURSIVE get_mounted_drives_from(_, _)
get_mounted_drives_from(parts, mounted) ==
  IF parts = <<>> THEN mounted
  ELSE LET device == StripTrailingDigits(Head(parts))
       IN  get_mounted_drives_from(Tail(parts),
             IF ~Contains(mounted, device) /\ StartsWith(device, Dev \o <<"s", "d">>)
             THEN Append(mounted, device)
             ELSE mounted)

\* a discovery that lists every disk of the array, mounted or not
get_mounted_drives_all(parts) == <<sda, sdb>>

get_mounted_drives(parts) == get_mounted_drives_from(parts, <<>>)

-----------------------------------------------------------------------------
(* The attribute catalog *)

TARGET_ATTRIBUTES ==
  (1 :> "Raw_Read_Error_Rate") @@ (3 :> "Spin_Up_Time") @@
  (4 :> "Start_Stop_Count") @@ (5 :> "Reallocated_Sector_Ct") @@
  (7 :> "Seek_Error_Rate") @@ (9 :> "Power_On_Hours") @@
  (12 :> "Power_Cycle_Count") @@ (187 :> "Reported_Uncorrectable_Errors") @@
  (188 :> "Command_Timeout") @@ (190 :> "Airflow_Temperature_Cel") @@
  (191 :> "G_Sense_Error_Rate") @@ (192 :> "Power_Off_Retract_Count") @@
  (193 :> "Load_Cycle_Count") @@ (194 :> "Temperature_Celsius") @@
  (196 :> "Reallocation_Event_Count") @@ (197 :> "Current_Pending_Sector") @@
  (198 :> "Offline_Uncorrectable") @@ (199 :> "UDMA_CRC_Error_Count") @@
  (222 :> "Loaded_Hours") @@ (240 :> "Head_Flying_Hours") @@
  (241 :> "Total_LBAs_Written") @@ (242 :> "Total_LBAs_Read")

critical_attrs == {5, 187, 196, 197, 198}

-----------------------------------------------------------------------------
(* What subprocess.run can answer *)

Raised(e) == [exc |-> e, returncode |-> 0, stdout |-> <<>>]
Completed(rc, out) == [exc |-> "none", returncode |-> rc, stdout |-> out]

\* smartctl -i: lines "key: value"
EnabledInfo ==
  << <<"Device Model", "M1">>, <<"Serial Number", "S1">>,
     <<"SMART support is", "Enabled">> >>
DisabledInfo ==
  << <<"Model Number", "M2">>, <<"SMART support is", "Disabled">> >>

InfoResults ==
  { Raised("TimeoutExpired"), Raised("OSError"),
    Completed(4, EnabledInfo), Completed(0, EnabledInfo), Completed(0, DisabledInfo) }

\* smartctl -n standby: words of the output
StandbyResults ==
  { Raised("TimeoutExpired"),
    Completed(2, <<"Device", "is", "in", "STANDBY", "mode">>),
    Completed(0, <<"Device", "is", "in", "ACTIVE", "or", "IDLE", "mode">>),
    Completed(1, <<"Smartctl", "open", "device", "failed">>),
    Completed(0, <<"#", "?">>) }

\* smartctl -A --json: one record of the attribute table
Attr(id, raw, value, thresh) ==
  [id |-> id, raw |-> raw, value |-> value, thresh |-> thresh, worst |-> value,
   flags |-> "flags"]

AttrRecords ==
  { Attr(5, 2, 90, 10),      \* critical attribute, non-zero raw value
    Attr(194, 65, 35, 40),   \* hot, and below its threshold
    Attr(1, 0, 100, 0),      \* healthy catalog attribute
    Attr(200, 7, 5, 10) }    \* not in the catalog, below its threshold

\* the parsed JSON document: its keys, the type of ata_smart_attributes, the table
Doc(keys, kind, table) == [keys |-> keys, ata_kind |-> kind, table |-> table]
EmptyDict == Doc({}, "absent", <<>>)

JsonDocs ==
  { EmptyDict,
    Doc({"smartctl"}, "absent", <<>>),
    Doc({"smartctl", "ata_smart_attributes"}, "list", <<>>) }
  \cup { Doc({"smartctl", "ata_smart_attributes"}, "dict", t) :
           t \in SeqsUpTo(AttrRecords, MaxTable) }

Json(doc) == [wellformed |-> TRUE, doc |-> doc]
Malformed == [wellformed |-> FALSE, doc |-> EmptyDict]

\* a timeout, a non-zero exit status with a table in the output, output that is no JSON
AttrResults ==
  { Raised("TimeoutExpired"),
    Completed(4, Json(Doc({"smartctl", "ata_smart_attributes"}, "dict",
                          <<Attr(5, 2, 90, 10)>>))),
    Completed(0, Malformed) }
  \cup { Completed(0, Json(d)) : d \in JsonDocs }

-----------------------------------------------------------------------------
VARIABLES
  pc,                \* position of run_monitoring_cycle
  cycle,             \* number of cycles started
  visits,            \* number of devices the cycles started so far had to process
  faults,            \* number of queries and database writes that failed so far
  partitions,        \* psutil.disk_partitions() as read by the last discovery
  mounted_drives,    \* local of run_monitoring_cycle
  idx,               \* position of the for loop in mounted_drives
  serial, model,     \* locals of run_monitoring_cycle
  smart_enabled,
  smart_data,
  attributes,
  tbl_device_status, \* table device_status
  tbl_smart_data,    \* table smart_data
  tbl_health_alerts, \* table health_alerts
  trace,             \* what the cycle did for the device at hand, in order
  processed          \* the devices the cycle is done with, and how each went

vars == <<pc, cycle, visits, faults, partitions, mounted_drives, idx, serial, model,
          smart_enabled, smart_data, attributes, tbl_device_status,
          tbl_smart_data, tbl_health_alerts, trace, processed>>

locals == <<serial, model, smart_enabled, smart_data, attributes>>
tables == <<tbl_device_status, tbl_smart_data, tbl_health_alerts>>
discovery == <<cycle, visits, partitions, mounted_drives>>

\* datetime.now(), to the resolution of one cycle
now == cycle

device == mounted_drives[idx]

Event(d, op, arg, r) == [device |-> d, op |-> op, arg |-> arg, result |-> r]

QueryOps == {"get_device_info", "check_smart_support", "standby_check", "smart_query"}
WriteOps == {"update_device_status", "store_smart_data", "create_alert"}

Ok == Completed(0, <<>>)
SqliteError == Raised("sqlite3.Error")
WriteResults == {Ok, SqliteError}

\* the answers that count as failures: an exception, a non-zero exit status (but for
\* the standby report, which exits with 2), output that cannot be parsed
InfoFaults == {r \in InfoResults : r.exc # "none" \/ r.returncode # 0}
StandbyFaults ==
  {r \in StandbyResults :
     r.exc # "none" \/ (~Contains(r.stdout, "STANDBY") /\ ~Contains(r.stdout, "ACTIVE"))}
AttrFaults ==
  {r \in AttrResults :
     \/ r.exc # "none"
     \/ r.returncode # 0
     \/ ~r.stdout.wellformed
     \/ r.stdout.doc.ata_kind = "list"}
WriteFaults == {SqliteError}

\* the step may fail only while the model's budget of failures lasts
Fault(r, F) ==
  /\ r \in F => faults < MaxFaults
  /\ faults' = IF r \in F THEN faults + 1 ELSE faults

-----------------------------------------------------------------------------
(* get_device_info and check_smart_support *)

\* the value of the last line of the output whose key is one of keys
RECURSIVE LastField(_, _, _)
LastField(lines, keys, found) ==
  IF lines = <<>> THEN found
  ELSE LastField(Tail(lines), keys,
                 IF Head(lines)[1] \in keys THEN Head(lines)[2] ELSE found)

get_device_info(r) ==
  IF r.exc # "none" THEN <<None, None>>
  ELSE IF r.returncode = 0
       THEN << LastField(r.stdout, {"Serial Number"}, None),
               LastField(r.stdout, {"Device Model", "Model Number"}, None) >>
       ELSE <<None, None>>

\* a capability check that takes a timeout for support
check_smart_support_on_timeout(r) ==
  IF r.exc = "TimeoutExpired" THEN TRUE
  ELSE IF r.exc # "none" THEN FALSE
  ELSE IF r.returncode = 0
       THEN Contains(r.stdout, <<"SMART support is", "Enabled">>)
       ELSE FALSE

check_smart_support(r) ==
  IF r.exc # "none" THEN FALSE
  ELSE IF r.returncode = 0
       THEN Contains(r.stdout, <<"SMART support is", "Enabled">>)
       ELSE FALSE

-----------------------------------------------------------------------------
(* collect_smart_data *)

\* a standby check that never sees the standby report
standby_reported_never(r) == FALSE

\* 'STANDBY' in standby_check.stdout
standby_reported(r) == Contains(r.stdout, "STANDBY")

\* a standby check whose timeout falls through to the attribute query
standby_check_raised_never(r) == FALSE

\* the standby check left collect_smart_data through an except clause
standby_check_raised(r) == r.exc # "none"

\* a collector that parses the output whatever the exit status
collect_smart_data_any_status(r) ==
  IF r.exc # "none" THEN EmptyDict
  ELSE IF r.stdout.wellformed THEN r.stdout.doc ELSE EmptyDict

\* json.loads of the attribute query's output, {} on any failure
collect_smart_data(r) ==
  IF r.exc # "none" THEN EmptyDict
  ELSE IF r.returncode = 0
       THEN IF r.stdout.wellformed THEN r.stdout.doc ELSE EmptyDict
       ELSE EmptyDict

\* truth value of a dict
Truthy(doc) == doc.keys # {}

-----------------------------------------------------------------------------
(* parse_smart_attributes *)

Reading(d, attr, name) ==
  [device |-> d, attribute_id |-> attr.id, attribute_name |-> name,
   raw_value |-> attr.raw, normalized_value |-> attr.value,
   threshold |-> attr.thresh, worst_value |-> attr.worst, flags |-> attr.flags]

\* a filter that keeps every record of the table
RECURSIVE FilterTable_keep_all(_, _)
FilterTable_keep_all(table, d) ==
  IF table = <<>> THEN <<>>
  ELSE LET attr == Head(table)
       IN  <<Reading(d, attr, IF attr.id \in DOMAIN TARGET_ATTRIBUTES
                               THEN TARGET_ATTRIBUTES[attr.id] ELSE "Unknown_Attribute")>>
           \o FilterTable_keep_all(Tail(table), d)

RECURSIVE FilterTable(_, _)
FilterTable(table, d) ==
  IF table = <<>> THEN <<>>
  ELSE LET attr == Head(table)
       IN  IF attr.id \in DOMAIN TARGET_ATTRIBUTES
           THEN <<Reading(d, attr, TARGET_ATTRIBUTES[attr.id])>> \o FilterTable(Tail(table), d)
           ELSE FilterTable(Tail(table), d)

\* the list of readings, or the exception .get raises on a value that is no dict
parse_smart_attributes(doc, d) ==
  IF "ata_smart_attributes" \notin doc.keys THEN [exc |-> "none", attributes |-> <<>>]
  ELSE IF doc.ata_kind # "dict" THEN [exc |-> "AttributeError", attributes |-> <<>>]
  ELSE [exc |-> "none", attributes |-> FilterTable(doc.table, d)]

-----------------------------------------------------------------------------
(* check_health_thresholds *)

Alert(attr, type, message) ==
  [device |-> attr.device, attribute_name |-> attr.attribute_name,
   alert_type |-> type, message |-> message]

\* a threshold rule with the comparison turned round
threshold_rule_above(attr) == attr.threshold > 0 /\ attr.normalized_value >= attr.threshold

\* a threshold rule that lets a value equal to its threshold pass
threshold_rule_strict(attr) == attr.threshold > 0 /\ attr.normalized_value < attr.threshold

threshold_rule(attr) == attr.threshold > 0 /\ attr.normalized_value <= attr.threshold

\* a critical rule that does not look at the attribute's id
critical_rule_any_id(attr) == attr.raw_value > 0

critical_rule(attr) == attr.attribute_id \in critical_attrs /\ attr.raw_value > 0

\* a temperature rule that alerts at 60 already
temperature_rule_from_60(attr) == attr.attribute_id \in {190, 194} /\ attr.raw_value >= 60

temperature_rule(attr) == attr.attribute_id \in {190, 194} /\ attr.raw_value > 60

\* the three rules as an if / elif chain: the first rule that holds, alone
AlertsOf_elif(attr) ==
  IF threshold_rule(attr)
  THEN <<Alert(attr, "THRESHOLD_VIOLATION",
               <<"Value", attr.normalized_value, "below threshold", attr.threshold>>)>>
  ELSE IF critical_rule(attr)
  THEN <<Alert(attr, "CRITICAL_VALUE", <<"Non-zero critical value:", attr.raw_value>>)>>
  ELSE IF temperature_rule(attr)
  THEN <<Alert(attr, "HIGH_TEMPERATURE", <<"High temperature:", attr.raw_value>>)>>
  ELSE <<>>

AlertsOf(attr) ==
  (IF threshold_rule(attr)
   THEN <<Alert(attr, "THRESHOLD_VIOLATION",
                <<"Value", attr.normalized_value, "below threshold", attr.threshold>>)>>
   ELSE <<>>)
  \o
  (IF critical_rule(attr)
   THEN <<Alert(attr, "CRITICAL_VALUE", <<"Non-zero critical value:", attr.raw_value>>)>>
   ELSE <<>>)
  \o
  (IF temperature_rule(attr)
   THEN <<Alert(attr, "HIGH_TEMPERATURE", <<"High temperature:", attr.raw_value>>)>>
   ELSE <<>>)

\* the create_alert calls of one evaluation, in order
RECURSIVE check_health_thresholds(_)
check_health_thresholds(attrs) ==
  IF attrs = <<>> THEN <<>>
  ELSE AlertsOf(Head(attrs)) \o check_health_thresholds(Tail(attrs))

-----------------------------------------------------------------------------
(* The three tables *)

StatusRow(d, ser, mod, ts, mounted, enabled) ==
  [device |-> d, serial_number |-> ser, model |-> mod, last_seen |-> ts,
   is_mounted |-> mounted, mount_point |-> None, smart_enabled |-> enabled,
   last_smart_check |-> ts, spin_up_count |-> 0]

\* an upsert that also marks the rows of the other devices as not mounted
update_device_status_unmount_others(tbl, d, ser, mod, mounted, enabled, ts) ==
  {[row EXCEPT !.is_mounted = FALSE] : row \in {x \in tbl : x.device # d}}
    \cup {StatusRow(d, ser, mod, ts, mounted, enabled)}

\* a plain INSERT INTO device_status, with no key to replace on
update_device_status_insert(tbl, d, ser, mod, mounted, enabled, ts) ==
  tbl \cup {StatusRow(d, ser, mod, ts, mounted, enabled)}

\* INSERT OR REPLACE INTO device_status, PRIMARY KEY device
update_device_status(tbl, d, ser, mod, mounted, enabled, ts) ==
  {row \in tbl : row.device # d} \cup {StatusRow(d, ser, mod, ts, mounted, enabled)}

DataRow(attr, ser, mod, ts) ==
  [device |-> attr.device, serial_number |-> ser, model |-> mod, timestamp |-> ts,
   attribute_id |-> attr.attribute_id, attribute_name |-> attr.attribute_name,
   raw_value |-> attr.raw_value, normalized_value |-> attr.normalized_value,
   threshold |-> attr.threshold, worst_value |-> attr.worst_value, flags |-> attr.flags]

\* INSERT OR REPLACE INTO smart_data, UNIQUE(device, timestamp, attribute_id)
RECURSIVE store_smart_data(_, _, _, _, _)
store_smart_data(tbl, attrs, ser, mod, ts) ==
  IF attrs = <<>> THEN tbl
  ELSE LET new == DataRow(Head(attrs), ser, mod, ts)
           kept == {row \in tbl : ~(/\ row.device = new.device
                                    /\ row.timestamp = new.timestamp
                                    /\ row.attribute_id = new.attribute_id)}
       IN  store_smart_data(kept \cup {new}, Tail(attrs), ser, mod, ts)

\* INSERT INTO health_alerts: the rows of the first n alerts
AlertRows(alerts, n, ts) ==
  [i \in 1..n |->
     [device |-> alerts[i].device, attribute_name |-> alerts[i].attribute_name,
      alert_type |-> alerts[i].alert_type, message |-> alerts[i].message,
      timestamp |-> ts, resolved |-> FALSE]]

\* create_alert that skips an alert the device already has an unresolved row for
create_alerts_deduplicated(tbl, alerts, n, ts) ==
  tbl \o SelectSeq(AlertRows(alerts, n, ts),
                   LAMBDA new : ~\E i \in 1..Len(tbl) :
                                    /\ tbl[i].device = new.device
                                    /\ tbl[i].attribute_name = new.attribute_name
                                    /\ tbl[i].alert_type = new.alert_type
                                    /\ ~tbl[i].resolved)

\* the table after the first n create_alert calls of an evaluation
create_alerts(tbl, alerts, n, ts) == tbl \o AlertRows(alerts, n, ts)

-----------------------------------------------------------------------------
(* run_monitoring_cycle *)

NoDoc == EmptyDict

ResetLocals ==
  /\ serial' = None
  /\ model' = None
  /\ smart_enabled' = FALSE
  /\ smart_data' = NoDoc
  /\ attributes' = <<>>

\* what is kept of a device's trace once the cycle is done with it:
\* the answer of its standby check and the exceptions its steps raised
NotRun == Raised("not run")
Summary(d, tr) ==
  [device |-> d,
   standby_check |-> IF \E i \in 1..Len(tr) : tr[i].op = "standby_check"
                     THEN tr[CHOOSE i \in 1..Len(tr) : tr[i].op = "standby_check"].result
                     ELSE NotRun,
   raised |-> {tr[i].result.exc : i \in 1..Len(tr)} \ {"none"}]

\* the for loop takes the next device, or the cycle is over
NextDevice ==
  /\ idx' = idx + 1
  /\ processed' = Append(processed, Summary(device, trace'))
  /\ pc' = IF idx + 1 > Len(mounted_drives) THEN "idle" ELSE "get_device_info"
  /\ ResetLocals

\* an except clause that lets the exception end the cycle
except_Exception_abort(e) ==
  /\ idx' = Len(mounted_drives) + 1
  /\ processed' = Append(processed, Summary(device, trace'))
  /\ pc' = "idle"
  /\ ResetLocals

\* an except clause that does not catch database errors
except_Exception_not_sqlite(e) ==
  IF e = "sqlite3.Error"
  THEN /\ idx' = Len(mounted_drives) + 1
       /\ processed' = Append(processed, Summary(device, trace'))
       /\ pc' = "idle"
       /\ ResetLocals
  ELSE NextDevice

\* except Exception as e: log, and the loop goes on
except_Exception(e) == NextDevice

\* if not smart_enabled: continue, dropped
smart_check_passes_always(enabled) == TRUE

\* the device goes on to collect_smart_data
smart_check_passes(enabled) == enabled

Init ==
  /\ pc = "idle"
  /\ cycle = 0
  /\ visits = 0
  /\ faults = 0
  /\ partitions = <<>>
  /\ mounted_drives = <<>>
  /\ idx = 1
  /\ serial = None
  /\ model = None
  /\ smart_enabled = FALSE
  /\ smart_data = NoDoc
  /\ attributes = <<>>
  /\ tbl_device_status = {}
  /\ tbl_smart_data = {}
  /\ tbl_health_alerts = <<>>
  /\ trace = <<>>
  /\ processed = <<>>

\* get_mounted_drives and the head of the for loop
StartCycle ==
  /\ pc = "idle"
  /\ cycle < MaxCycles
  /\ \E parts \in MountTables :
       /\ visits + Len(get_mounted_drives(parts)) <= MaxVisits
       /\ partitions' = parts
       /\ mounted_drives' = get_mounted_drives(parts)
       /\ visits' = visits + Len(get_mounted_drives(parts))
       /\ pc' = IF get_mounted_drives(parts) = <<>> THEN "idle" ELSE "get_device_info"
  /\ cycle' = cycle + 1
  /\ idx' = 1
  /\ trace' = <<>>
  /\ processed' = <<>>
  /\ UNCHANGED <<faults, locals, tables>>

GetDeviceInfo ==
  /\ pc = "get_device_info"
  /\ \E r \in InfoResults :
       /\ Fault(r, InfoFaults)
       /\ serial' = get_device_info(r)[1]
       /\ model' = get_device_info(r)[2]
       /\ trace' = <<Event(device, "get_device_info", None, r)>>
  /\ pc' = "check_smart_support"
  /\ UNCHANGED <<discovery, idx, processed, smart_enabled, smart_data, attributes, tables>>

CheckSmartSupport ==
  /\ pc = "check_smart_support"
  /\ \E r \in InfoResults :
       /\ Fault(r, InfoFaults)
       /\ smart_enabled' = check_smart_support(r)
       /\ trace' = Append(trace, Event(device, "check_smart_support", None, r))
  /\ pc' = "update_device_status"
  /\ UNCHANGED <<discovery, idx, processed, serial, model, smart_data, attributes, tables>>

UpdateDeviceStatus ==
  /\ pc = "update_device_status"
  /\ \E r \in WriteResults :
       /\ Fault(r, WriteFaults)
       /\ trace' = Append(trace, Event(device, "update_device_status", smart_enabled, r))
       /\ IF r.exc = "none"
          THEN /\ tbl_device_status' =
                    update_device_status(tbl_device_status, device, serial, model,
                                         TRUE, smart_enabled, now)
               /\ IF smart_check_passes(smart_enabled)
                  THEN /\ pc' = "standby_check"
                       /\ UNCHANGED <<idx, processed, locals>>
                  ELSE NextDevice
          ELSE /\ except_Exception(r.exc)
               /\ UNCHANGED tbl_device_status
  /\ UNCHANGED <<discovery, tbl_smart_data, tbl_health_alerts>>

\* collect_smart_data up to the standby check
StandbyCheck ==
  /\ pc = "standby_check"
  /\ \E r \in StandbyResults :
       /\ Fault(r, StandbyFaults)
       /\ trace' = Append(trace, Event(device, "standby_check", None, r))
       /\ IF standby_check_raised(r) \/ standby_reported(r)
          THEN NextDevice      \* returns {}, and the cycle logs "No SMART data collected"
          ELSE /\ pc' = "smart_query"
               /\ UNCHANGED <<idx, processed, locals>>
  /\ UNCHANGED <<discovery, tables>>

\* collect_smart_data from the attribute query on, and the test of its result
SmartQuery ==
  /\ pc = "smart_query"
  /\ \E r \in AttrResults :
       /\ Fault(r, AttrFaults)
       /\ trace' = Append(trace, Event(device, "smart_query", None, r))
       /\ IF Truthy(collect_smart_data(r))
          THEN /\ smart_data' = collect_smart_data(r)
               /\ pc' = "parse_smart_attributes"
               /\ UNCHANGED <<idx, processed, serial, model, smart_enabled, attributes>>
          ELSE NextDevice
  /\ UNCHANGED <<discovery, tables>>

ParseSmartAttributes ==
  /\ pc = "parse_smart_attributes"
  /\ UNCHANGED <<trace, faults>>
  /\ LET parsed == parse_smart_attributes(smart_data, device)
     IN  IF parsed.exc # "none"
         THEN except_Exception(parsed.exc)
         ELSE IF parsed.attributes # <<>>
         THEN /\ attributes' = parsed.attributes
              /\ pc' = "store_smart_data"
              /\ UNCHANGED <<idx, processed, serial, model, smart_enabled, smart_data>>
         ELSE NextDevice       \* "No target SMART attributes found"
  /\ UNCHANGED <<discovery, tables>>

\* a store_smart_data that catches its own database error
store_smart_data_raises_never(r) == FALSE

\* store_smart_data has no except clause: the error of the database leaves it
store_smart_data_raises(r) == r.exc # "none"

StoreSmartData ==
  /\ pc = "store_smart_data"
  /\ \E r \in WriteResults :
       /\ Fault(r, WriteFaults)
       /\ trace' = Append(trace, Event(device, "store_smart_data", attributes, r))
       /\ tbl_smart_data' =
            IF r.exc = "none"
            THEN store_smart_data(tbl_smart_data, attributes, serial, model, now)
            ELSE tbl_smart_data
       /\ IF store_smart_data_raises(r)
          THEN except_Exception(r.exc)
          ELSE /\ pc' = "check_health_thresholds"
               /\ UNCHANGED <<idx, processed, locals>>
  /\ UNCHANGED <<discovery, tbl_device_status, tbl_health_alerts>>

\* check_health_thresholds: n create_alert calls succeed, the next one may fail
CheckHealthThresholds ==
  /\ pc = "check_health_thresholds"
  /\ LET alerts == check_health_thresholds(attributes)
     IN  \E n \in 0..Len(alerts) :
           /\ Fault(IF n = Len(alerts) THEN Ok ELSE SqliteError, WriteFaults)
           /\ tbl_health_alerts' = create_alerts(tbl_health_alerts, alerts, n, now)
           /\ IF n = Len(alerts)
              THEN /\ trace' = trace \o
                        [i \in 1..n |-> Event(device, "create_alert", alerts[i], Ok)]
                   /\ NextDevice
              ELSE /\ trace' = trace \o
                        [i \in 1..n |-> Event(device, "create_alert", alerts[i], Ok)]
                        \o <<Event(device, "create_alert", alerts[n + 1], SqliteError)>>
                   /\ except_Exception("sqlite3.Error")
  /\ UNCHANGED <<discovery, tbl_device_status, tbl_smart_data>>

Next ==
  \/ StartCycle
  \/ GetDeviceInfo
  \/ CheckSmartSupport
  \/ UpdateDeviceStatus
  \/ StandbyCheck
  \/ SmartQuery
  \/ ParseSmartAttributes
  \/ StoreSmartData
  \/ CheckHealthThresholds

Spec == Init /\ [][Next]_vars

TypeOK ==
  /\ pc \in {"idle", "get_device_info", "check_smart_support", "update_device_status",
             "standby_check", "smart_query", "parse_smart_attributes",
             "store_smart_data", "check_health_thresholds"}
  /\ cycle \in 0..MaxCycles
  /\ visits \in 0..MaxVisits
  /\ faults \in 0..MaxFaults
  /\ idx \in 1..(Len(mounted_drives) + 1)
  /\ pc # "idle" => idx <= Len(mounted_drives)

-----------------------------------------------------------------------------
(* The evaluator on its own: the cycle stands at check_health_thresholds, right *)
(* after store_smart_data, for one disk whose attribute table is any table of  *)
(* EvalRecords, the first time or after an earlier cycle that read the same    *)
(* table.                                                                       *)

\* ids in and out of critical_attrs, the two temperature ids, one id off the catalog;
\* raw values on both sides of 0 and of 60; values below, at and above the threshold
EvalRecords ==
  { Attr(id, raw, value, thresh) :
      id \in {1, 5, 190, 194, 198, 200}, raw \in {0, 3, 60, 65},
      value \in {0, 5, 10, 15}, thresh \in {0, 10} }

EvalTables == SeqsUpTo(EvalRecords, MaxTable)

\* the trace of a device that got as far as store_smart_data
TraceToStore(d, doc, attrs) ==
  << Event(d, "get_device_info", None, Completed(0, EnabledInfo)),
     Event(d, "check_smart_support", None, Completed(0, EnabledInfo)),
     Event(d, "update_device_status", TRUE, Ok),
     Event(d, "standby_check", None,
           Completed(0, <<"Device", "is", "in", "ACTIVE", "or", "IDLE", "mode">>)),
     Event(d, "smart_query", None, Completed(0, Json(doc))),
     Event(d, "store_smart_data", attrs, Ok) >>

InitEval ==
  \E table \in EvalTables, again \in BOOLEAN :
    LET doc == Doc({"smartctl", "ata_smart_attributes"}, "dict", table)
        attrs == parse_smart_attributes(doc, sda).attributes
        ser == get_device_info(Completed(0, EnabledInfo))[1]
        mod == get_device_info(Completed(0, EnabledInfo))[2]
        n == IF again THEN 2 ELSE 1
        before == IF again THEN store_smart_data({}, attrs, ser, mod, 1) ELSE {}
        earlier == check_health_thresholds(attrs)
    IN  /\ attrs # <<>>
        /\ pc = "check_health_thresholds"
        /\ cycle = n
        /\ visits = n
        /\ faults = 0
        /\ partitions = <<sda1>>
        /\ mounted_drives = get_mounted_drives(<<sda1>>)
        /\ idx = 1
        /\ serial = ser
        /\ model = mod
        /\ smart_enabled = check_smart_support(Completed(0, EnabledInfo))
        /\ smart_data = doc
        /\ attributes = attrs
        /\ tbl_device_status = update_device_status({}, sda, ser, mod, TRUE, TRUE, n)
        /\ tbl_smart_data = store_smart_data(before, attrs, ser, mod, n)
        /\ tbl_health_alerts =
             IF again THEN AlertRows(earlier, Len(earlier), 1) ELSE <<>>
        /\ trace = TraceToStore(sda, doc, attrs)
        /\ processed = <<>>

NextEval == CheckHealthThresholds

SpecEval == InitEval /\ [][NextEval]_vars

-----------------------------------------------------------------------------
(* Vocabulary of the properties *)

\* partition p lies on disk d: d followed by a partition number, or d itself
IsPartitionOf(p, d) ==
  /\ StartsWith(p, d)
  /\ \A j \in (Len(d) + 1)..Len(p) : p[j] \in Digits

\* disk d backs an entry of the mount table the cycle's discovery read
InMountTable(d) == \E i \in 1..Len(partitions) : IsPartitionOf(partitions[i], d)

\* the rows the current cycle wrote for device d
NewData(d) == {row \in tbl_smart_data : row.device = d /\ row.timestamp = now}
NewAlerts(d) ==
  {i \in 1..Len(tbl_health_alerts) :
     tbl_health_alerts[i].device = d /\ tbl_health_alerts[i].timestamp = now}
OldData(d) == {row \in tbl_smart_data : row.device = d /\ row.timestamp < now}

\* the cycle is done with the device of the trace
DeviceDone == pc \in {"idle", "get_device_info"} /\ trace # <<>>
CycleDone == pc = "idle" /\ cycle > 0

Queried(d, op) == \E i \in 1..Len(trace) : trace[i].device = d /\ trace[i].op = op

\* what the answers of smartctl say
ReportsStandby(r) == r.exc = "none" /\ Contains(r.stdout, "STANDBY")
ReportsActive(r) == r.exc = "none" /\ r.returncode = 0 /\ Contains(r.stdout, "ACTIVE")
TimedOut(r) == r.exc = "TimeoutExpired"
\* the standby check failed, timed out, or said neither standby nor active
GateUnknown(r) ==
  \/ r.exc # "none"
  \/ ~Contains(r.stdout, "STANDBY") /\ (r.returncode # 0 \/ ~Contains(r.stdout, "ACTIVE"))
CapabilityOk(r) ==
  r.exc = "none" /\ r.returncode = 0 /\ Contains(r.stdout, <<"SMART support is", "Enabled">>)

CatalogNames == {TARGET_ATTRIBUTES[id] : id \in DOMAIN TARGET_ATTRIBUTES}

\* the readings the evaluator was given for the device of the trace
Stored(i) == trace[i].op = "store_smart_data" /\ trace[i].result.exc = "none"
EvaluatedReadings ==
  IF \E i \in 1..Len(trace) : Stored(i)
  THEN trace[CHOOSE i \in 1..Len(trace) : Stored(i)].arg
  ELSE <<>>

\* the evaluation of the device of the trace ran to its end
EvaluationDone ==
  /\ DeviceDone
  /\ \E i \in 1..Len(trace) : Stored(i)
  /\ \A i \in 1..Len(trace) : trace[i].op = "create_alert" => trace[i].result.exc = "none"

\* the alert rows of one type the current cycle wrote for the device of the trace
NewAlertsOfType(type) ==
  {i \in NewAlerts(trace[1].device) : tbl_health_alerts[i].alert_type = type}

\* the positions of rows are the positions of hits, one row for each hit, and a
\* row names the attribute of its hit and carries the message of that type
OneRowPerHit(rows, hits, attrs, Message(_)) ==
  /\ Cardinality(rows) = Cardinality(hits)
  /\ \A j \in hits :
       Cardinality({i \in rows :
                      /\ tbl_health_alerts[i].attribute_name = attrs[j].attribute_name
                      /\ tbl_health_alerts[i].message = Message(attrs[j])})
       = Cardinality({k \in hits :
                        /\ attrs[k].attribute_name = attrs[j].attribute_name
                        /\ Message(attrs[k]) = Message(attrs[j])})

-----------------------------------------------------------------------------
(* C1: no query of any kind is issued for a device that is not in the mount *)
(* table the cycle's discovery read: every query of the trace, and every    *)
(* device the cycle processed, is a disk of that mount table.               *)
C1_NoQueryOffMountTable ==
  /\ \A i \in 1..Len(trace) : trace[i].op \in QueryOps => InMountTable(trace[i].device)
  /\ \A k \in 1..Len(processed) : InMountTable(processed[k].device)
  /\ pc # "idle" => InMountTable(device)

\* a query was issued in a cycle in which a disk known from an earlier cycle
\* is not mounted any more
C1_Witness ==
  /\ \E i \in 1..Len(trace) : trace[i].op \in QueryOps
  /\ \E row \in tbl_device_status : ~InMountTable(row.device)

(* C2: if the standby check of a device reports STANDBY, the attribute query *)
(* is not issued for that device in that cycle, and the cycle adds no        *)
(* readings and no alerts for it.                                            *)
C2_StandbySkipsCollection ==
  /\ \A i \in 1..Len(trace) :
       (trace[i].op = "standby_check" /\ ReportsStandby(trace[i].result))
         => /\ ~Queried(trace[i].device, "smart_query")
            /\ pc # "smart_query"
            /\ NewData(trace[i].device) = {}
            /\ NewAlerts(trace[i].device) = {}
  /\ \A k \in 1..Len(processed) :
       ReportsStandby(processed[k].standby_check)
         => /\ NewData(processed[k].device) = {}
            /\ NewAlerts(processed[k].device) = {}

\* a cycle is over in which a device was in standby that has readings of an
\* earlier cycle
C2_Witness ==
  /\ CycleDone
  /\ \E k \in 1..Len(processed) :
       /\ ReportsStandby(processed[k].standby_check)
       /\ OldData(processed[k].device) # {}

(* C3: if the standby check fails, times out or returns output that says    *)
(* neither standby nor active, the attribute query is not issued for the    *)
(* device in that cycle.                                                     *)
C3_UnknownGateSkipsCollection ==
  \A i \in 1..Len(trace) :
    (trace[i].op = "standby_check" /\ GateUnknown(trace[i].result))
      => /\ ~Queried(trace[i].device, "smart_query")
         /\ pc # "smart_query"

(* C4: every attribute query of a device comes after a standby check of the *)
(* same device in the same cycle that completed and did not report standby. *)
C4_GateBeforeCollection ==
  /\ \A j \in 1..Len(trace) :
       trace[j].op = "smart_query"
         => \E i \in 1..(j - 1) :
              /\ trace[i].op = "standby_check"
              /\ trace[i].device = trace[j].device
              /\ trace[i].result.exc = "none"
              /\ ~Contains(trace[i].result.stdout, "STANDBY")
  /\ pc = "smart_query"
       => /\ trace # <<>>
          /\ trace[Len(trace)].op = "standby_check"
          /\ trace[Len(trace)].device = device
          /\ trace[Len(trace)].result.exc = "none"
          /\ ~Contains(trace[Len(trace)].result.stdout, "STANDBY")

\* an attribute query was issued
C4_Witness == \E j \in 1..Len(trace) : trace[j].op = "smart_query"

(* C5: for each device the steps come in the order identity query,          *)
(* capability query, device-status upsert; the standby check and whatever   *)
(* follows it run only if the capability query said yes. A device whose     *)
(* capability query says no has its status upserted with smart_enabled      *)
(* false (the row is there once the write went through) and gets no standby *)
(* check, no attribute query, no readings and no alerts in that cycle.      *)
C5_StepOrder ==
  /\ \A i \in 1..Len(trace) : trace[i].device = trace[1].device
  /\ Len(trace) >= 1 => trace[1].op = "get_device_info"
  /\ Len(trace) >= 2 => trace[2].op = "check_smart_support"
  /\ Len(trace) >= 3 =>
       /\ trace[3].op = "update_device_status"
       /\ trace[3].arg = CapabilityOk(trace[2].result)
  /\ \A i \in 4..Len(trace) :
       /\ trace[i].op \in {"standby_check", "smart_query", "store_smart_data", "create_alert"}
       /\ CapabilityOk(trace[2].result)
       /\ trace[3].result = Ok
  /\ (Len(trace) >= 2 /\ ~CapabilityOk(trace[2].result)) =>
       /\ pc \in {"update_device_status", "get_device_info", "idle"}
       /\ Len(trace) <= 3
       /\ NewData(trace[1].device) = {}
       /\ NewAlerts(trace[1].device) = {}
       /\ (Len(trace) = 3 /\ trace[3].result = Ok) =>
            \E row \in tbl_device_status :
              /\ row.device = trace[1].device
              /\ row.smart_enabled = FALSE
              /\ row.last_seen = now

\* the cycle is done with a device whose capability query said no, and whose
\* row of an earlier cycle said yes
C5_Witness ==
  /\ DeviceDone
  /\ Len(trace) = 3
  /\ ~CapabilityOk(trace[2].result)
  /\ trace[3].result = Ok
  /\ OldData(trace[1].device) # {}

(* C6: a timeout or any other exception at a step of one device does not    *)
(* end the cycle: the cycle processes every device of the discovery, in     *)
(* order, whatever happened to the devices before.                          *)
C6_CycleGoesOn ==
  /\ Len(processed) <= Len(mounted_drives)
  /\ \A k \in 1..Len(processed) : processed[k].device = mounted_drives[k]
  /\ pc # "idle" => idx = Len(processed) + 1
  /\ CycleDone => Len(processed) = Len(mounted_drives)

\* the first device of the cycle raised an exception and the second one has
\* been processed
C6_Witness ==
  /\ CycleDone
  /\ Len(processed) = 2
  /\ processed[1].raised # {}
  /\ trace # <<>> /\ trace[1].device = mounted_drives[2]

(* C7, as claimed: a failed database write is not caught per device, it     *)
(* ends the cycle and the devices after it are not processed.               *)
C7_WriteFailureEndsCycle ==
  \A k \in 1..Len(processed) :
    "sqlite3.Error" \in processed[k].raised => (pc = "idle" /\ Len(processed) = k)

(* C7, amended: a failed database write (device status, readings or an      *)
(* alert) is caught per device: it ends the steps of that device only, and  *)
(* the devices after it are processed in the same cycle.                    *)
C7_WriteFailureIsIsolated ==
  /\ \A i \in 1..Len(trace) :
       (trace[i].op \in WriteOps /\ trace[i].result.exc # "none")
         => /\ i = Len(trace)
            /\ pc \in {"idle", "get_device_info"}
  /\ \A k \in 1..Len(processed) :
       ("sqlite3.Error" \in processed[k].raised /\ k < Len(mounted_drives))
         => /\ idx > k
            /\ pc = "idle" => Len(processed) = Len(mounted_drives)

\* the first device of the cycle had a database write fail and the second one
\* is through its queries
C7_Witness ==
  /\ Len(processed) >= 1
  /\ "sqlite3.Error" \in processed[1].raised
  /\ Len(mounted_drives) = 2
  /\ Len(trace) >= 3
  /\ trace[1].device = mounted_drives[2]

(* C8, as claimed: after a query of a device timed out, no further query is *)
(* issued for that device in that cycle.                                    *)
C8_NoQueryAfterTimeout ==
  \A i \in 1..Len(trace) : \A j \in (i + 1)..Len(trace) :
    (trace[i].op \in QueryOps /\ TimedOut(trace[i].result)) => trace[j].op \notin QueryOps

(* C8, amended: no query is retried within a cycle: each of the four        *)
(* queries is issued at most once per device and cycle, and after a timeout *)
(* of the capability query, the standby check or the attribute query no     *)
(* further query is issued for the device in that cycle. (A timeout of the  *)
(* identity query does not skip the device: the capability query follows.)  *)
C8_NoRetry ==
  /\ \A i \in 1..Len(trace) : \A j \in (i + 1)..Len(trace) :
       /\ (trace[i].op \in QueryOps /\ trace[j].op \in QueryOps) => trace[i].op # trace[j].op
       /\ (trace[i].op \in QueryOps \ {"get_device_info"} /\ TimedOut(trace[i].result))
            => trace[j].op \notin QueryOps
  /\ \A i \in 1..Len(trace) :
       (trace[i].op \in QueryOps \ {"get_device_info"} /\ TimedOut(trace[i].result))
         => pc \in {"idle", "get_device_info", "update_device_status"}
  /\ \A k \in 1..Len(processed) : \A l \in 1..Len(processed) :
       k # l => processed[k].device # processed[l].device
  /\ \A k \in 1..Len(processed) :
       pc # "idle" => processed[k].device # device

\* the cycle is done with a device whose capability query timed out
C8_Witness ==
  /\ DeviceDone
  /\ \E i \in 1..Len(trace) :
       trace[i].op = "check_smart_support" /\ TimedOut(trace[i].result)

(* C9: allow-list: a record of the attribute table whose id is not in the   *)
(* catalog produces no reading; every stored reading and every alert names  *)
(* a catalog attribute.                                                     *)
C9_AllowList ==
  /\ \A row \in tbl_smart_data :
       /\ row.attribute_id \in DOMAIN TARGET_ATTRIBUTES
       /\ row.attribute_name = TARGET_ATTRIBUTES[row.attribute_id]
  /\ \A i \in 1..Len(tbl_health_alerts) :
       tbl_health_alerts[i].attribute_name \in CatalogNames
  /\ \A i \in 1..Len(attributes) :
       attributes[i].attribute_id \in DOMAIN TARGET_ATTRIBUTES

\* the attribute query returned a record that is not in the catalog, and the
\* cycle is done with the device
C9_Witness ==
  /\ DeviceDone
  /\ \E i \in 1..Len(trace) :
       /\ trace[i].op = "smart_query"
       /\ trace[i].result.exc = "none"
       /\ trace[i].result.stdout.wellformed
       /\ \E j \in 1..Len(trace[i].result.stdout.doc.table) :
            trace[i].result.stdout.doc.table[j].id \notin DOMAIN TARGET_ATTRIBUTES

\* the scenario of C10: the cycle over sda (in standby) and sdb (active, one record) is over
C10_Scenario ==
  /\ CycleDone
  /\ mounted_drives = <<sda, sdb>>
  /\ Len(processed) = 2
  /\ ReportsStandby(processed[1].standby_check)
  /\ Len(trace) >= 5
  /\ trace[1].device = sdb
  /\ CapabilityOk(trace[2].result)
  /\ trace[4].op = "standby_check" /\ ReportsActive(trace[4].result)
  /\ trace[5].op = "smart_query"
  /\ trace[5].result =
       Completed(0, Json(Doc({"smartctl", "ata_smart_attributes"}, "dict",
                             <<Attr(5, 2, 90, 10)>>)))
  /\ \A i \in 1..Len(trace) : trace[i].op \in WriteOps => trace[i].result = Ok

(* C10: end to end: /dev/sda and /dev/sdb are mounted, both SMART-capable,  *)
(* /dev/sda is in standby, /dev/sdb is active and returns the one attribute *)
(* id=5, raw=2, normalized=90, threshold=10: the cycle stores no reading    *)
(* and no alert for sda, and one reading and one alert, a CRITICAL_VALUE,   *)
(* for sdb.                                                                 *)
C10_EndToEnd ==
  C10_Scenario
    => /\ NewData(sda) = {}
       /\ NewAlerts(sda) = {}
       /\ Cardinality(NewData(sdb)) = 1
       /\ \A row \in NewData(sdb) :
            /\ row.attribute_id = 5
            /\ row.raw_value = 2 /\ row.normalized_value = 90 /\ row.threshold = 10
       /\ Cardinality(NewAlerts(sdb)) = 1
       /\ \A i \in NewAlerts(sdb) : tbl_health_alerts[i].alert_type = "CRITICAL_VALUE"

C10_Witness == C10_Scenario

-----------------------------------------------------------------------------
C11_ThresholdHit(a) == a.threshold > 0 /\ a.normalized_value <= a.threshold
C11_Message(a) == <<"Value", a.normalized_value, "below threshold", a.threshold>>

(* C11: once the evaluation of a list of readings ran to its end, the cycle   *)
(* has written exactly one THRESHOLD_VIOLATION alert for every reading with   *)
(* threshold > 0 and normalized_value <= threshold, equality included, and    *)
(* none for any other reading.                                                *)
C11_ThresholdRule ==
  EvaluationDone =>
    LET attrs == EvaluatedReadings
    IN  OneRowPerHit(NewAlertsOfType("THRESHOLD_VIOLATION"),
                     {j \in 1..Len(attrs) : C11_ThresholdHit(attrs[j])},
                     attrs, C11_Message)

\* a reading whose value equals its threshold was evaluated, and has its alert
C11_Witness ==
  /\ EvaluationDone
  /\ \E j \in 1..Len(EvaluatedReadings) :
       /\ EvaluatedReadings[j].threshold > 0
       /\ EvaluatedReadings[j].normalized_value = EvaluatedReadings[j].threshold
  /\ NewAlertsOfType("THRESHOLD_VIOLATION") # {}

-----------------------------------------------------------------------------
C12_CriticalHit(a) == a.attribute_id \in {5, 187, 196, 197, 198} /\ a.raw_value > 0
C12_Message(a) == <<"Non-zero critical value:", a.raw_value>>

(* C12: once the evaluation ran to its end, the cycle has written exactly one *)
(* CRITICAL_VALUE alert for every reading whose attribute_id is one of 5,     *)
(* 187, 196, 197, 198 and whose raw_value is above 0, and none for a reading  *)
(* with another id or with raw_value 0.                                       *)
C12_CriticalRule ==
  EvaluationDone =>
    LET attrs == EvaluatedReadings
    IN  OneRowPerHit(NewAlertsOfType("CRITICAL_VALUE"),
                     {j \in 1..Len(attrs) : C12_CriticalHit(attrs[j])},
                     attrs, C12_Message)

\* a critical attribute with a non-zero raw value was evaluated, and has its alert
C12_Witness ==
  /\ EvaluationDone
  /\ \E j \in 1..Len(EvaluatedReadings) :
       EvaluatedReadings[j].attribute_id = 198 /\ EvaluatedReadings[j].raw_value > 0
  /\ NewAlertsOfType("CRITICAL_VALUE") # {}

-----------------------------------------------------------------------------
C13_TemperatureHit(a) == a.attribute_id \in {190, 194} /\ a.raw_value > 60
C13_Message(a) == <<"High temperature:", a.raw_value>>

(* C13: once the evaluation ran to its end, the cycle has written exactly one *)
(* HIGH_TEMPERATURE alert for every reading whose attribute_id is 190 or 194  *)
(* and whose raw_value is strictly above 60, and none for a raw_value of 60   *)
(* or less or for any other id.                                               *)
C13_TemperatureRule ==
  EvaluationDone =>
    LET attrs == EvaluatedReadings
    IN  OneRowPerHit(NewAlertsOfType("HIGH_TEMPERATURE"),
                     {j \in 1..Len(attrs) : C13_TemperatureHit(attrs[j])},
                     attrs, C13_Message)

\* a temperature of exactly 60 was evaluated and raised no temperature alert
C13_Witness ==
  /\ EvaluationDone
  /\ Len(EvaluatedReadings) = 1
  /\ EvaluatedReadings[1].attribute_id = 190
  /\ EvaluatedReadings[1].raw_value = 60
  /\ NewAlertsOfType("HIGH_TEMPERATURE") = {}

-----------------------------------------------------------------------------
\* a stored reading meets the rule of an alert type
Hit(type, a) ==
  CASE type = "THRESHOLD_VIOLATION" -> C11_ThresholdHit(a)
    [] type = "CRITICAL_VALUE" -> C12_CriticalHit(a)
    [] type = "HIGH_TEMPERATURE" -> C13_TemperatureHit(a)
AlertTypes == {"THRESHOLD_VIOLATION", "CRITICAL_VALUE", "HIGH_TEMPERATURE"}

\* as long as nothing has failed, every stored reading that meets a rule has an alert
\* row of its own cycle, but for the readings that are still waiting for evaluation
EveryCycleAlerts ==
  (faults = 0 /\ pc # "check_health_thresholds") =>
    \A row \in tbl_smart_data : \A type \in AlertTypes :
      Hit(type, row) =>
        \E i \in 1..Len(tbl_health_alerts) :
          /\ tbl_health_alerts[i].device = row.device
          /\ tbl_health_alerts[i].attribute_name = row.attribute_name
          /\ tbl_health_alerts[i].alert_type = type
          /\ tbl_health_alerts[i].timestamp = row.timestamp

(* C14: the alert log only grows: no step removes or changes a row it holds,  *)
(* every row a step adds has resolved = FALSE, no row ever has resolved set,  *)
(* and alerts are not deduplicated: a violating reading stored in N cycles    *)
(* has an alert row in each of the N cycles.                                  *)
C14_AppendOnly ==
  [][ /\ Len(tbl_health_alerts') >= Len(tbl_health_alerts)
      /\ SubSeq(tbl_health_alerts', 1, Len(tbl_health_alerts)) = tbl_health_alerts
      /\ \A i \in 1..Len(tbl_health_alerts') : tbl_health_alerts'[i].resolved = FALSE
      /\ EveryCycleAlerts' ]_vars

\* the same violating reading of one disk has an alert row in each of two cycles
C14_Witness ==
  \E i, j \in 1..Len(tbl_health_alerts) :
    /\ i < j
    /\ tbl_health_alerts[i].timestamp = 1
    /\ tbl_health_alerts[j].timestamp = 2
    /\ tbl_health_alerts[i].device = tbl_health_alerts[j].device
    /\ tbl_health_alerts[i].attribute_name = tbl_health_alerts[j].attribute_name
    /\ tbl_health_alerts[i].alert_type = tbl_health_alerts[j].alert_type
    /\ tbl_health_alerts[i].message = tbl_health_alerts[j].message

-----------------------------------------------------------------------------
\* the attribute query timed out, exited with a non-zero status, or printed no JSON
CollectorFailed(r) ==
  \/ r.exc # "none"
  \/ r.returncode # 0
  \/ ~r.stdout.wellformed

(* C15: a failed attribute query (timeout, non-zero exit status, malformed    *)
(* output) ends the device's turn without ending the cycle: it is the last    *)
(* step for the device, the cycle has added no reading and no alert for it,   *)
(* the device's status row is the one the cycle upserted before the query,    *)
(* and the loop is at the next device if there is one.                        *)
C15_CollectorFailureIsEmpty ==
  \A i \in 1..Len(trace) :
    (trace[i].op = "smart_query" /\ CollectorFailed(trace[i].result)) =>
      LET d == trace[i].device
      IN  /\ i = Len(trace)
          /\ pc = IF idx <= Len(mounted_drives) THEN "get_device_info" ELSE "idle"
          /\ attributes = <<>>
          /\ NewData(d) = {}
          /\ NewAlerts(d) = {}
          /\ \E j \in 1..(i - 1) :
               /\ trace[j].op = "update_device_status"
               /\ trace[j].result = Ok
          /\ {row \in tbl_device_status : row.device = d}
               = {StatusRow(d, row.serial_number, row.model, now, TRUE, TRUE) :
                    row \in {x \in tbl_device_status : x.device = d}}
          /\ Cardinality({row \in tbl_device_status : row.device = d}) = 1

\* the attribute query of a disk exited with a non-zero status and a table in its output
C15_Witness ==
  /\ trace # <<>>
  /\ trace[Len(trace)].op = "smart_query"
  /\ trace[Len(trace)].result.exc = "none"
  /\ trace[Len(trace)].result.returncode # 0
  /\ trace[Len(trace)].result.stdout.wellformed
  /\ pc = "get_device_info"

-----------------------------------------------------------------------------
\* d is the device name of partition p without its trailing partition number
IsDiskOf(p, d) == IsPartitionOf(p, d) /\ (d = <<>> \/ d[Len(d)] \notin Digits)

\* the position of the first entry of the mount table that lies on disk d
FirstSeen(d) ==
  CHOOSE i \in 1..Len(partitions) :
    /\ IsDiskOf(partitions[i], d)
    /\ \A j \in 1..(i - 1) : ~IsDiskOf(partitions[j], d)

\* the cycle wrote nothing so far
NothingWritten ==
  /\ \A row \in tbl_device_status : row.last_seen # now
  /\ \A row \in tbl_smart_data : row.timestamp # now
  /\ \A i \in 1..Len(tbl_health_alerts) : tbl_health_alerts[i].timestamp # now

(* C16: the discovery result holds no disk twice, every disk of it is the     *)
(* name of a mounted partition without its trailing partition number, every   *)
(* mounted partition of a /dev/sd disk has its disk in it, and the disks      *)
(* stand in the order of their first partitions in the mount table; the cycle *)
(* processes the disks of the result one by one in that order, each once; a   *)
(* cycle whose discovery result is empty ends with no query and no write.     *)
C16_DiscoveryOncePerDisk ==
  /\ \A k, l \in 1..Len(mounted_drives) :
       /\ k # l => mounted_drives[k] # mounted_drives[l]
       /\ \E i \in 1..Len(partitions) : IsDiskOf(partitions[i], mounted_drives[k])
       /\ k < l => FirstSeen(mounted_drives[k]) < FirstSeen(mounted_drives[l])
  /\ \A i \in 1..Len(partitions) : \A n \in 0..Len(partitions[i]) :
       LET d == SubSeq(partitions[i], 1, n)
       IN  (IsDiskOf(partitions[i], d) /\ StartsWith(d, Dev \o <<"s", "d">>))
             => Contains(mounted_drives, d)
  /\ Len(processed) = idx - 1
  /\ \A k \in 1..Len(processed) : processed[k].device = mounted_drives[k]
  /\ \A i \in 1..Len(trace) :
       pc \notin {"idle", "get_device_info"} => trace[i].device = mounted_drives[idx]
  /\ CycleDone => Len(processed) = Len(mounted_drives)
  /\ (CycleDone /\ mounted_drives = <<>>) => (trace = <<>> /\ NothingWritten)

\* a cycle over two mounted partitions of one disk is over: the disk was processed once
C16_Witness ==
  /\ CycleDone
  /\ Len(partitions) = 2
  /\ partitions[1] # partitions[2]
  /\ Len(mounted_drives) = 1
  /\ IsDiskOf(partitions[1], mounted_drives[1])
  /\ IsDiskOf(partitions[2], mounted_drives[1])
  /\ Len(processed) = 1

-----------------------------------------------------------------------------
\* the alert rows of device d with timestamp ts, in order, without their timestamps
AlertsAt(d, ts) ==
  LET rows == SelectSeq(tbl_health_alerts, LAMBDA a : a.device = d /\ a.timestamp = ts)
  IN  [i \in 1..Len(rows) |->
         [device |-> rows[i].device, attribute_name |-> rows[i].attribute_name,
          alert_type |-> rows[i].alert_type, message |-> rows[i].message,
          resolved |-> rows[i].resolved]]

(* C17: the three rules are applied independently: once the evaluation of a   *)
(* list of readings ran to its end, the cycle has written, for every          *)
(* attribute, as many alerts as its readings meet rules, one of each type     *)
(* met; and when the cycle before evaluated the same readings (the second     *)
(* cycle of SpecEval), the alerts of the two cycles are the same but for      *)
(* their timestamps.                                                          *)
C17_RulesAreIndependent ==
  EvaluationDone =>
    LET attrs == EvaluatedReadings
        d == trace[1].device
        met == {jt \in (1..Len(attrs)) \X AlertTypes : Hit(jt[2], attrs[jt[1]])}
    IN  /\ Cardinality(NewAlerts(d)) = Cardinality(met)
        /\ \A j \in 1..Len(attrs) : \A type \in AlertTypes :
             Cardinality({i \in NewAlertsOfType(type) :
                            tbl_health_alerts[i].attribute_name = attrs[j].attribute_name})
             = Cardinality({k \in 1..Len(attrs) :
                              /\ attrs[k].attribute_name = attrs[j].attribute_name
                              /\ Hit(type, attrs[k])})
        /\ cycle = 2 => AlertsAt(d, 2) = AlertsAt(d, 1)

\* Reallocated_Sector_Ct with a non-zero raw value and a value at or below its
\* threshold was evaluated a second time and has two alerts in each cycle
C17_Witness ==
  /\ EvaluationDone
  /\ cycle = 2
  /\ Len(EvaluatedReadings) = 1
  /\ EvaluatedReadings[1].attribute_id = 5
  /\ EvaluatedReadings[1].raw_value > 0
  /\ EvaluatedReadings[1].threshold > 0
  /\ EvaluatedReadings[1].normalized_value <= EvaluatedReadings[1].threshold
  /\ Len(AlertsAt(trace[1].device, 2)) = 2
  /\ Len(AlertsAt(trace[1].device, 1)) = 2

-----------------------------------------------------------------------------
StatusRowsOf(d) == {row \in tbl_device_status : row.device = d}

(* C18 as stated: when a cycle is over, every disk it processed has exactly   *)
(* one status row.                                                            *)
C18_OneRowPerDiscoveredDevice ==
  CycleDone =>
    \A k \in 1..Len(processed) : Cardinality(StatusRowsOf(processed[k].device)) = 1

(* C18: spin_up_count is 0 in every status row, no device has two status      *)
(* rows, no step takes away the status row of a device, and a device whose    *)
(* status upsert succeeded has exactly one.                                   *)
C18_SpinUpCountStaysZero ==
  [][ /\ \A row \in tbl_device_status' : row.spin_up_count = 0
      /\ \A r1, r2 \in tbl_device_status' : r1.device = r2.device => r1 = r2
      /\ \A row \in tbl_device_status :
           \E kept \in tbl_device_status' : kept.device = row.device
      /\ \A i \in 1..Len(trace') :
           (trace'[i].op = "update_device_status" /\ trace'[i].result = Ok) =>
             Cardinality({row \in tbl_device_status' : row.device = trace'[i].device}) = 1
    ]_vars

\* a disk that had readings stored in the first cycle was upserted again in the second
C18_Witness ==
  \E row \in tbl_device_status :
    /\ row.last_seen = 2
    /\ OldData(row.device) # {}
    /\ row.spin_up_count = 0
    /\ Cardinality(StatusRowsOf(row.device)) = 1

-----------------------------------------------------------------------------
(* C19: readings are stored before they are evaluated: every create_alert of  *)
(* a device comes after a store_smart_data of the device that succeeded, a    *)
(* store_smart_data that failed is the device's last step and leaves the      *)
(* device without an alert of the cycle, and every alert row has a stored     *)
(* reading of its device, its attribute and its cycle.                        *)
C19_StoreBeforeEvaluate ==
  /\ \A i \in 1..Len(trace) :
       /\ trace[i].op = "create_alert" =>
            \E j \in 1..(i - 1) :
              /\ trace[j].op = "store_smart_data"
              /\ trace[j].result = Ok
              /\ trace[j].device = trace[i].device
       /\ (trace[i].op = "store_smart_data" /\ trace[i].result # Ok) =>
            /\ i = Len(trace)
            /\ DeviceDone
            /\ NewAlerts(trace[i].device) = {}
            /\ NewData(trace[i].device) = {}
  /\ \A i \in 1..Len(tbl_health_alerts) :
       \E row \in tbl_smart_data :
         /\ row.device = tbl_health_alerts[i].device
         /\ row.attribute_name = tbl_health_alerts[i].attribute_name
         /\ row.timestamp = tbl_health_alerts[i].timestamp

\* the store of a reading that meets a rule failed, and the device is done
C19_Witness ==
  /\ DeviceDone
  /\ trace[Len(trace)].op = "store_smart_data"
  /\ trace[Len(trace)].result = SqliteError
  /\ \E j \in 1..Len(trace[Len(trace)].arg) : \E type \in AlertTypes :
       Hit(type, trace[Len(trace)].arg[j])
  /\ NewAlerts(trace[1].device) = {}

-----------------------------------------------------------------------------
(* C20: every status row has is_mounted = TRUE; a step writes a status row    *)
(* only at the status upsert of the device at hand, which is a disk of the    *)
(* cycle's discovery result, and stamps it with the cycle's time; the rows of *)
(* all other devices, those that are no longer in the discovery result among  *)
(* them, stay as they are.                                                    *)
C20_StatusOnlyWhileMounted ==
  [][ /\ \A row \in tbl_device_status' : row.is_mounted = TRUE
      /\ \A row \in tbl_device_status' \ tbl_device_status :
           /\ pc = "update_device_status"
           /\ row.device = mounted_drives[idx]
           /\ InMountTable(row.device)
           /\ row.last_seen = now
      /\ \A row \in tbl_device_status \ tbl_device_status' :
           /\ pc = "update_device_status"
           /\ row.device = mounted_drives[idx]
      /\ \A row \in tbl_device_status :
           ~Contains(mounted_drives', row.device) => row \in tbl_device_status'
    ]_vars

\* the second cycle wrote the row of one disk and found another disk, which has
\* its row of the first cycle, no longer mounted
C20_Witness ==
  /\ cycle = 2
  /\ \E old, new \in tbl_device_status :
       /\ old.last_seen = 1
       /\ old.is_mounted = TRUE
       /\ ~Contains(mounted_drives, old.device)
       /\ ~InMountTable(old.device)
       /\ new.last_seen = 2

=============================================================================
